---- MODULE Spec2Model ----
(***************************************************************************)
(* Model of streamlit_app.py (Semantik): one run of the Streamlit script   *)
(* compares two strings with six lexical similarity measures and one       *)
(* embedding-based measure, then renders a card per measure.               *)
(*                                                                         *)
(* Strings are sequences of one-character strings.  Scores are exact       *)
(* rationals <<n, d>> in lowest terms with d > 0; floating-point rounding  *)
(* of the Python floats is not modelled.                                   *)
(***************************************************************************)
EXTENDS Integers, Sequences, FiniteSets

VARIABLES
  string1,       \* text of the first text area
  string2,       \* text of the second text area
  pc,            \* position of the script run
  similarities,  \* the dict, as the sequence of its <<key, value>> items
  progress,      \* value last given to the progress bar
  placeholder,   \* progress_placeholder: "absent", "progress" or "cleared"
  requests,      \* texts sent to client.embeddings.create, in order
  embedding1,    \* result of get_embedding(string1), <<>> while unset
  embedding2,    \* result of get_embedding(string2), <<>> while unset
  cards,         \* metric cards rendered by the loop, in order
  errors,        \* number of st.error messages shown
  info,          \* the st.info prompt is shown
  explained      \* the explanation and colour legend are shown

vars == <<string1, string2, pc, similarities, progress, placeholder, requests,
          embedding1, embedding2, cards, errors, info, explained>>

(***************************************************************************)
(* Bounds of the model.                                                    *)
(***************************************************************************)
\* longest string given to the lexical measures in SpecFn
MaxLen == 4
\* longest string typed into a text area in Spec
MaxInput == 3

Alphabet == {"a", "b"}

StringsUpTo(n) == UNION {[1..k -> Alphabet] : k \in 0..n}

kitten == <<"k", "i", "t", "t", "e", "n">>
sitting == <<"s", "i", "t", "t", "i", "n", "g">>
hello == <<"h", "e", "l", "l", "o">>

\* the worked examples, added to the bounded inputs of SpecFn
ExamplePairs == {<<kitten, sitting>>, <<sitting, kitten>>, <<hello, hello>>}

(***************************************************************************)
(* Exact rational arithmetic standing for Python float arithmetic.         *)
(***************************************************************************)
Abs(x) == IF x < 0 THEN -x ELSE x

Min2(x, y) == IF x <= y THEN x ELSE y

Max2(x, y) == IF x >= y THEN x ELSE y

RECURSIVE Gcd(_, _)
Gcd(x, y) == IF y = 0 THEN x ELSE Gcd(y, x % y)

\* the rational n/d (d # 0) in lowest terms with a positive denominator
Rat(n, d) ==
  LET g == Gcd(Abs(n), Abs(d))
      s == IF d < 0 THEN -1 ELSE 1
  IN  <<(s * n) \div g, (s * d) \div g>>

Zero == <<0, 1>>

One == <<1, 1>>

RAdd(x, y) == Rat(x[1] * y[2] + y[1] * x[2], x[2] * y[2])

RSub(x, y) == Rat(x[1] * y[2] - y[1] * x[2], x[2] * y[2])

RMul(x, y) == Rat(x[1] * y[1], x[2] * y[2])

RDiv(x, y) == Rat(x[1] * y[2], x[2] * y[1])

RLe(x, y) == x[1] * y[2] <= y[1] * x[2]

RLt(x, y) == x[1] * y[2] < y[1] * x[2]

RGe(x, y) == RLe(y, x)

RGt(x, y) == RLt(y, x)

(***************************************************************************)
(* Levenshtein.distance: edit distance by the row-by-row dynamic program.  *)
(***************************************************************************)
\* row i of the table from row i-1 (prev); column j is stored at index j+1
RECURSIVE LevRow(_, _, _, _)
LevRow(prev, c, s2, cur) ==
  IF Len(cur) = Len(s2) + 1 THEN cur
  ELSE LET j == Len(cur)
           cost == IF c = s2[j] THEN 0 ELSE 1
           v == Min2(Min2(prev[j + 1] + 1, cur[j] + 1), prev[j] + cost)
       IN  LevRow(prev, c, s2, Append(cur, v))

RECURSIVE LevRows(_, _, _, _)
LevRows(s1, s2, i, prev) ==
  IF i > Len(s1) THEN prev
  ELSE LevRows(s1, s2, i + 1, LevRow(prev, s1[i], s2, <<prev[1] + 1>>))

distance(s1, s2) ==
  LevRows(s1, s2, 1, [j \in 1..(Len(s2) + 1) |-> j - 1])[Len(s2) + 1]

\* faulty variant: the distance is divided by the sum of the lengths
normalize_levenshtein_sum(s1, s2) ==
  LET max_len == Len(s1) + Len(s2)
  IN  IF max_len = 0 THEN One ELSE RSub(One, Rat(distance(s1, s2), max_len))

\* faulty variant: the distance ratio is returned, not its complement
normalize_levenshtein_raw(s1, s2) ==
  LET max_len == Max2(Len(s1), Len(s2))
  IN  IF max_len = 0 THEN One ELSE Rat(distance(s1, s2), max_len)

\* faulty variant: the distance is divided by the length of s1
normalize_levenshtein_first(s1, s2) ==
  LET max_len == Len(s1)
  IN  IF max_len = 0 THEN One ELSE RSub(One, Rat(distance(s1, s2), max_len))

\* faulty variant: the distance is divided by the shorter length
normalize_levenshtein_min(s1, s2) ==
  LET max_len == Min2(Len(s1), Len(s2))
  IN  IF max_len = 0 THEN One ELSE RSub(One, Rat(distance(s1, s2), max_len))

normalize_levenshtein(s1, s2) ==
  LET lev_dist == distance(s1, s2)
      max_len == Max2(Len(s1), Len(s2))
  IN  IF max_len = 0 THEN One
      ELSE RSub(One, Rat(lev_dist, max_len))

(***************************************************************************)
(* Levenshtein.jaro and Levenshtein.jaro_winkler.                          *)
(***************************************************************************)
Minimum(S) == CHOOSE x \in S : \A y \in S : x <= y

\* the k-th smallest element of a finite set of integers
Nth(S, k) == CHOOSE x \in S : Cardinality({y \in S : y < x}) = k - 1

\* greedy matching inside the window w: each character of s1, left to right,
\* takes the first equal character of s2 not taken yet; acc holds <<i, j>>
RECURSIVE JaroMatches(_, _, _, _, _)
JaroMatches(s1, s2, w, i, acc) ==
  IF i > Len(s1) THEN acc
  ELSE LET used == {acc[k][2] : k \in 1..Len(acc)}
           cand == {j \in Max2(1, i - w)..Min2(Len(s2), i + w) :
                      j \notin used /\ s2[j] = s1[i]}
       IN  IF cand = {} THEN JaroMatches(s1, s2, w, i + 1, acc)
           ELSE JaroMatches(s1, s2, w, i + 1, Append(acc, <<i, Minimum(cand)>>))

jaro(s1, s2) ==
  IF Len(s1) = 0 /\ Len(s2) = 0 THEN One
  ELSE IF Len(s1) = 0 \/ Len(s2) = 0 THEN Zero
  ELSE LET w == Max2((Max2(Len(s1), Len(s2)) \div 2) - 1, 0)
           ms == JaroMatches(s1, s2, w, 1, <<>>)
           m == Len(ms)
           js == {ms[k][2] : k \in 1..m}
           half == Cardinality({k \in 1..m : s1[ms[k][1]] # s2[Nth(js, k)]})
           t == half \div 2
       IN  IF m = 0 THEN Zero
           ELSE RDiv(RAdd(RAdd(Rat(m, Len(s1)), Rat(m, Len(s2))), Rat(m - t, m)),
                     <<3, 1>>)

\* length of the common prefix, at most 4 characters
CommonPrefix(s1, s2) ==
  LET lim == Min2(4, Min2(Len(s1), Len(s2)))
      same == {k \in 0..lim : \A i \in 1..k : s1[i] = s2[i]}
  IN  CHOOSE k \in same : \A l \in same : l <= k

jaro_winkler(s1, s2) ==
  LET sim == jaro(s1, s2)
      prefix == CommonPrefix(s1, s2)
  IN  IF RGt(sim, <<7, 10>>)
      THEN RAdd(sim, RMul(Rat(prefix, 10), RSub(One, sim)))
      ELSE sim

(***************************************************************************)
(* difflib.SequenceMatcher(None, a, b).ratio().                            *)
(***************************************************************************)
\* length of the longest common run ending at a[i], b[j] inside the window
RECURSIVE RunLen(_, _, _, _, _, _)
RunLen(a, b, alo, blo, i, j) ==
  IF i < alo \/ j < blo THEN 0
  ELSE IF a[i] # b[j] THEN 0
  ELSE 1 + RunLen(a, b, alo, blo, i - 1, j - 1)

\* find_longest_match over a[alo..ahi], b[blo..bhi] (1-based, inclusive):
\* the longest block, of those the one starting earliest in a, and of those
\* the one starting earliest in b; <<i, j, k>> with k = 0 when nothing matches
find_longest_match(a, b, alo, ahi, blo, bhi) ==
  LET runs == {<<i - RunLen(a, b, alo, blo, i, j) + 1,
                 j - RunLen(a, b, alo, blo, i, j) + 1,
                 RunLen(a, b, alo, blo, i, j)>> : i \in alo..ahi, j \in blo..bhi}
      best == {r \in runs : r[3] > 0 /\ \A q \in runs : q[3] <= r[3]}
  IN  IF best = {} THEN <<alo, blo, 0>>
      ELSE LET besti == Minimum({r[1] : r \in best})
               bestj == Minimum({r[2] : r \in {q \in best : q[1] = besti}})
           IN  <<besti, bestj, (CHOOSE r \in best : TRUE)[3]>>

\* get_matching_blocks: total size of the blocks found by matching the
\* longest block, then the pieces to its left and to its right
RECURSIVE MatchedSize(_, _, _, _, _, _)
MatchedSize(a, b, alo, ahi, blo, bhi) ==
  IF alo > ahi \/ blo > bhi THEN 0
  ELSE LET x == find_longest_match(a, b, alo, ahi, blo, bhi)
           i == x[1]
           j == x[2]
           k == x[3]
       IN  IF k = 0 THEN 0
           ELSE k + MatchedSize(a, b, alo, i - 1, blo, j - 1)
                  + MatchedSize(a, b, i + k, ahi, j + k, bhi)

ratio(a, b) ==
  LET matches == MatchedSize(a, b, 1, Len(a), 1, Len(b))
      length == Len(a) + Len(b)
  IN  IF length # 0 THEN Rat(2 * matches, length) ELSE One

(***************************************************************************)
(* textdistance.jaccard / textdistance.sorensen, normalized_similarity:    *)
(* multisets of characters (qval = 1, as_set = False).                     *)
(***************************************************************************)
Count(s, c) == Cardinality({i \in 1..Len(s) : s[i] = c})

Chars(s) == {s[i] : i \in 1..Len(s)}

RECURSIVE SumOver(_, _, _, _)
SumOver(S, s1, s2, useMin) ==
  IF S = {} THEN 0
  ELSE LET c == CHOOSE x \in S : TRUE
           v == IF useMin THEN Min2(Count(s1, c), Count(s2, c))
                ELSE Max2(Count(s1, c), Count(s2, c))
       IN  v + SumOver(S \ {c}, s1, s2, useMin)

\* _intersect_counters then _count_counters
IntersectCount(s1, s2) == SumOver(Chars(s1) \cup Chars(s2), s1, s2, TRUE)

\* _union_counters then _count_counters
UnionCount(s1, s2) == SumOver(Chars(s1) \cup Chars(s2), s1, s2, FALSE)

\* quick_answer of a similarity: 1 for identical inputs, 0 when one is empty
jaccard(s1, s2) ==
  IF s1 = s2 THEN One
  ELSE IF Len(s1) = 0 \/ Len(s2) = 0 THEN Zero
  ELSE Rat(IntersectCount(s1, s2), UnionCount(s1, s2))

sorensen(s1, s2) ==
  IF s1 = s2 THEN One
  ELSE IF Len(s1) = 0 \/ Len(s2) = 0 THEN Zero
  ELSE Rat(2 * IntersectCount(s1, s2), Len(s1) + Len(s2))

\* 1 - distance / maximum, with distance = maximum - similarity, maximum = 1
normalized_similarity(sim) == RSub(One, RDiv(RSub(One, sim), One))

jaccard_normalized_similarity(s1, s2) == normalized_similarity(jaccard(s1, s2))

sorensen_normalized_similarity(s1, s2) == normalized_similarity(sorensen(s1, s2))

(***************************************************************************)
(* get_color: the colour of a score.                                       *)
(***************************************************************************)
\* faulty variant: the thresholds are exclusive
get_color_strict(similarity_score) ==
  IF RGt(similarity_score, <<8, 10>>) THEN "#4CAF50"
  ELSE IF RGt(similarity_score, <<6, 10>>) THEN "#8BC34A"
  ELSE IF RGt(similarity_score, <<4, 10>>) THEN "#FFEB3B"
  ELSE IF RGt(similarity_score, <<2, 10>>) THEN "#FFC107"
  ELSE "#F44336"

get_color(similarity_score) ==
  IF RGe(similarity_score, <<8, 10>>) THEN "#4CAF50"
  ELSE IF RGe(similarity_score, <<6, 10>>) THEN "#8BC34A"
  ELSE IF RGe(similarity_score, <<4, 10>>) THEN "#FFEB3B"
  ELSE IF RGe(similarity_score, <<2, 10>>) THEN "#FFC107"
  ELSE "#F44336"

(***************************************************************************)
(* The embedding provider and cosine_similarity.                           *)
(***************************************************************************)
\* vectors the provider may return; <<1>> has another dimension
Embeddings == {<<1, 0>>, <<-1, 0>>, <<3, 4>>, <<1>>}

RECURSIVE Dot(_, _, _)
Dot(u, v, i) == IF i > Len(u) THEN 0 ELSE u[i] * v[i] + Dot(u, v, i + 1)

ISqrt(n) == CHOOSE r \in 0..n : r * r = n

\* scipy.spatial.distance.cosine raises ValueError on vectors of unequal length
cosine_raises(u, v) == Len(u) # Len(v)

\* scipy.spatial.distance.cosine: 1 - u.v / sqrt(u.u * v.v)
cosine(u, v) ==
  RSub(One, Rat(Dot(u, v, 1), ISqrt(Dot(u, u, 1) * Dot(v, v, 1))))

cosine_similarity(e1, e2) == RSub(One, cosine(e1, e2))

(***************************************************************************)
(* The dict similarities.                                                  *)
(***************************************************************************)
Keys(d) == [i \in 1..Len(d) |-> d[i][1]]

HasKey(d, k) == \E i \in 1..Len(d) : d[i][1] = k

\* d[k] = v: a new key goes last, a present key keeps its place
DictSet(d, k, v) ==
  IF HasKey(d, k)
  THEN [i \in 1..Len(d) |-> IF d[i][1] = k THEN <<k, v>> ELSE d[i]]
  ELSE Append(d, <<k, v>>)

DictGet(d, k) == d[CHOOSE i \in 1..Len(d) : d[i][1] = k][2]

(***************************************************************************)
(* One run of the script, top to bottom.                                   *)
(***************************************************************************)
\* what a fresh run starts from: nothing computed, nothing shown
RunStart(s1, s2) ==
  /\ string1 = s1
  /\ string2 = s2
  /\ pc = "guard"
  /\ similarities = <<>>
  /\ progress = 0
  /\ placeholder = "absent"
  /\ requests = <<>>
  /\ embedding1 = <<>>
  /\ embedding2 = <<>>
  /\ cards = <<>>
  /\ errors = 0
  /\ info = FALSE
  /\ explained = FALSE

\* the page is first served with both text areas empty
Init == RunStart(<<>>, <<>>)

\* the user edits a text area: Streamlit runs the script again from the top
Rerun ==
  /\ pc = "done"
  /\ \E s1, s2 \in StringsUpTo(MaxInput) :
       /\ string1' = s1
       /\ string2' = s2
  /\ pc' = "guard"
  /\ similarities' = <<>>
  /\ progress' = 0
  /\ placeholder' = "absent"
  /\ requests' = <<>>
  /\ embedding1' = <<>>
  /\ embedding2' = <<>>
  /\ cards' = <<>>
  /\ errors' = 0
  /\ info' = FALSE
  /\ explained' = FALSE

\* faulty variant: the guard accepts a single non-empty string
BeginAnalysis_either ==
  /\ pc = "guard"
  /\ string1 # <<>> \/ string2 # <<>>
  /\ similarities' = <<>>
  /\ placeholder' = "progress"
  /\ progress' = 0
  /\ pc' = "lev"
  /\ UNCHANGED <<string1, string2, requests, embedding1, embedding2, cards,
                 errors, info, explained>>

\* if string1 and string2: similarities = {}, progress(0)
BeginAnalysis ==
  /\ pc = "guard"
  /\ string1 # <<>> /\ string2 # <<>>
  /\ similarities' = <<>>
  /\ placeholder' = "progress"
  /\ progress' = 0
  /\ pc' = "lev"
  /\ UNCHANGED <<string1, string2, requests, embedding1, embedding2, cards,
                 errors, info, explained>>

\* else: st.info("Please enter two strings to compare.")
ShowInfo ==
  /\ pc = "guard"
  /\ ~(string1 # <<>> /\ string2 # <<>>)
  /\ info' = TRUE
  /\ pc' = "done"
  /\ UNCHANGED <<string1, string2, similarities, progress, placeholder,
                 requests, embedding1, embedding2, cards, errors, explained>>

\* similarities[key] = value; progress_bar.progress(p)
Measure(at, key, value, p, next) ==
  /\ pc = at
  /\ similarities' = DictSet(similarities, key, value)
  /\ progress' = p
  /\ pc' = next
  /\ UNCHANGED <<string1, string2, placeholder, requests, embedding1,
                 embedding2, cards, errors, info, explained>>

StepLevenshtein ==
  Measure("lev", "Levenshtein", normalize_levenshtein(string1, string2), 20, "jaro")

StepJaro ==
  Measure("jaro", "Jaro", jaro(string1, string2), 40, "jw")

\* faulty variant: the Jaro-Winkler value is stored under the key of Jaro
StepJaroWinkler_jarokey ==
  Measure("jw", "Jaro", jaro_winkler(string1, string2), 50, "ro")

StepJaroWinkler ==
  Measure("jw", "Jaro-Winkler", jaro_winkler(string1, string2), 50, "ro")

StepRatcliff ==
  Measure("ro", "Ratcliff/Obershelp", ratio(string1, string2), 60, "jaccard")

StepJaccard ==
  Measure("jaccard", "Jaccard", jaccard_normalized_similarity(string1, string2),
          70, "sorensen")

StepSorensen ==
  Measure("sorensen", "Sorensen-Dice",
          sorensen_normalized_similarity(string1, string2), 80, "embed1")

\* embedding1 = get_embedding(string1): the provider answers or raises
Embed1 ==
  /\ pc = "embed1"
  /\ requests' = Append(requests, string1)
  /\ \/ /\ \E e \in Embeddings : embedding1' = e
        /\ pc' = "embed2"
     \/ /\ embedding1' = embedding1
        /\ pc' = "except"
  /\ UNCHANGED <<string1, string2, similarities, progress, placeholder,
                 embedding2, cards, errors, info, explained>>

\* faulty variant: equal inputs reuse the first embedding, no second request
Embed2_reuse ==
  /\ pc = "embed2"
  /\ IF string2 = string1
     THEN /\ embedding2' = embedding1
          /\ pc' = "cosine"
          /\ UNCHANGED requests
     ELSE /\ requests' = Append(requests, string2)
          /\ \/ /\ \E e \in Embeddings : embedding2' = e
                /\ pc' = "cosine"
             \/ /\ embedding2' = embedding2
                /\ pc' = "except"
  /\ UNCHANGED <<string1, string2, similarities, progress, placeholder,
                 embedding1, cards, errors, info, explained>>

\* embedding2 = get_embedding(string2)
Embed2 ==
  /\ pc = "embed2"
  /\ requests' = Append(requests, string2)
  /\ \/ /\ \E e \in Embeddings : embedding2' = e
        /\ pc' = "cosine"
     \/ /\ embedding2' = embedding2
        /\ pc' = "except"
  /\ UNCHANGED <<string1, string2, similarities, progress, placeholder,
                 embedding1, cards, errors, info, explained>>

\* similarities["Semantic (OpenAI)"] = cosine_similarity(...); progress(100)
StepSemantic ==
  /\ pc = "cosine"
  /\ IF cosine_raises(embedding1, embedding2)
     THEN /\ pc' = "except"
          /\ UNCHANGED <<similarities, progress>>
     ELSE /\ similarities' = DictSet(similarities, "Semantic (OpenAI)",
                                     cosine_similarity(embedding1, embedding2))
          /\ progress' = 100
          /\ pc' = "clear"
  /\ UNCHANGED <<string1, string2, placeholder, requests, embedding1,
                 embedding2, cards, errors, info, explained>>

\* progress_placeholder.empty(); cols = st.columns(3)
ClearProgress ==
  /\ pc = "clear"
  /\ placeholder' = "cleared"
  /\ pc' = "render"
  /\ UNCHANGED <<string1, string2, similarities, progress, requests,
                 embedding1, embedding2, cards, errors, info, explained>>

\* one turn of the loop over similarities.items()
RenderCard ==
  /\ pc = "render"
  /\ Len(cards) < Len(similarities)
  /\ LET idx == Len(cards)
         item == similarities[idx + 1]
     IN  cards' = Append(cards, [method |-> item[1], score |-> item[2],
                                 color |-> get_color(item[2]), col |-> idx % 3])
  /\ UNCHANGED <<string1, string2, pc, similarities, progress, placeholder,
                 requests, embedding1, embedding2, errors, info, explained>>

\* the loop is over: the explanations and the colour legend
Explain ==
  /\ pc = "render"
  /\ Len(cards) = Len(similarities)
  /\ explained' = TRUE
  /\ pc' = "done"
  /\ UNCHANGED <<string1, string2, similarities, progress, placeholder,
                 requests, embedding1, embedding2, cards, errors, info>>

\* faulty variant: the handler also empties the progress placeholder
ShowError_clears ==
  /\ pc = "except"
  /\ errors' = errors + 1
  /\ placeholder' = "cleared"
  /\ pc' = "done"
  /\ UNCHANGED <<string1, string2, similarities, progress,
                 requests, embedding1, embedding2, cards, info, explained>>

\* except Exception as e: st.error(...)
ShowError ==
  /\ pc = "except"
  /\ errors' = errors + 1
  /\ pc' = "done"
  /\ UNCHANGED <<string1, string2, similarities, progress, placeholder,
                 requests, embedding1, embedding2, cards, info, explained>>

Next ==
  \/ Rerun
  \/ BeginAnalysis
  \/ ShowInfo
  \/ StepLevenshtein
  \/ StepJaro
  \/ StepJaroWinkler
  \/ StepRatcliff
  \/ StepJaccard
  \/ StepSorensen
  \/ Embed1
  \/ Embed2
  \/ StepSemantic
  \/ ClearProgress
  \/ RenderCard
  \/ Explain
  \/ ShowError

Spec == Init /\ [][Next]_vars

(***************************************************************************)
(* The six lexical measures of lines 121-137 applied to any pair of        *)
(* strings, the empty string included.                                     *)
(***************************************************************************)
InitFn ==
  \E p \in (StringsUpTo(MaxLen) \X StringsUpTo(MaxLen)) \cup ExamplePairs :
    /\ string1 = p[1]
    /\ string2 = p[2]
    /\ pc = "lev"
    /\ similarities = <<>>
    /\ progress = 0
    /\ placeholder = "progress"
    /\ requests = <<>>
    /\ embedding1 = <<>>
    /\ embedding2 = <<>>
    /\ cards = <<>>
    /\ errors = 0
    /\ info = FALSE
    /\ explained = FALSE

NextFn ==
  \/ StepLevenshtein
  \/ StepJaro
  \/ StepJaroWinkler
  \/ StepRatcliff
  \/ StepJaccard
  \/ StepSorensen

SpecFn == InitFn /\ [][NextFn]_vars

(***************************************************************************)
(* The card loop of lines 153-163 applied to a mapping whose semantic      *)
(* score is any value of a grid: the cosine is not clamped, and get_color  *)
(* is defined on every number.  The two embedding vectors behind the score *)
(* are left out.                                                           *)
(***************************************************************************)
\* how far, in hundredths, the grid reaches below 0 and above 1
MaxOut == 50

\* the scores named at the band thresholds, in ten-thousandths
BoundaryScores ==
  {Rat(k, 10000) : k \in {0, 1999, 2000, 3999, 4000, 5999, 6000, 7999, 8000, 10000}}

Scores == {Rat(k, 100) : k \in (0 - MaxOut)..(100 + MaxOut)} \cup BoundaryScores

InitColor ==
  \E s \in Scores :
    /\ string1 = <<"a">>
    /\ string2 = <<"b">>
    /\ pc = "render"
    /\ similarities =
         << <<"Levenshtein", normalize_levenshtein(<<"a">>, <<"b">>)>>,
            <<"Jaro", jaro(<<"a">>, <<"b">>)>>,
            <<"Jaro-Winkler", jaro_winkler(<<"a">>, <<"b">>)>>,
            <<"Ratcliff/Obershelp", ratio(<<"a">>, <<"b">>)>>,
            <<"Jaccard", jaccard_normalized_similarity(<<"a">>, <<"b">>)>>,
            <<"Sorensen-Dice", sorensen_normalized_similarity(<<"a">>, <<"b">>)>>,
            <<"Semantic (OpenAI)", s>> >>
    /\ progress = 100
    /\ placeholder = "cleared"
    /\ requests = << <<"a">>, <<"b">> >>
    /\ embedding1 = <<>>
    /\ embedding2 = <<>>
    /\ cards = <<>>
    /\ errors = 0
    /\ info = FALSE
    /\ explained = FALSE

NextColor ==
  \/ RenderCard
  \/ Explain

SpecColor == InitColor /\ [][NextColor]_vars

(***************************************************************************)
(* Reference definitions the properties are stated with.                   *)
(***************************************************************************)
LexicalKeys ==
  <<"Levenshtein", "Jaro", "Jaro-Winkler", "Ratcliff/Obershelp", "Jaccard",
    "Sorensen-Dice">>

SemanticKey == "Semantic (OpenAI)"

IsPrefix(s, t) == Len(s) <= Len(t) /\ \A i \in 1..Len(s) : s[i] = t[i]

NoDuplicates(s) == \A i, j \in 1..Len(s) : s[i] = s[j] => i = j

\* the strings one insertion, deletion or substitution away from s
OneEdit(s) ==
  {SubSeq(s, 1, i - 1) \o SubSeq(s, i + 1, Len(s)) : i \in 1..Len(s)}
  \cup {SubSeq(s, 1, i - 1) \o <<c>> \o SubSeq(s, i + 1, Len(s)) :
          i \in 1..Len(s), c \in Alphabet}
  \cup {SubSeq(s, 1, i) \o <<c>> \o SubSeq(s, i + 1, Len(s)) :
          i \in 0..Len(s), c \in Alphabet}

\* the strings reached from s by at most k edits, none longer than MaxLen
RECURSIVE WithinEdits(_, _)
WithinEdits(s, k) ==
  IF k = 0 THEN {s}
  ELSE LET prev == WithinEdits(s, k - 1)
       IN  prev \cup {u \in UNION {OneEdit(x) : x \in prev} : Len(u) <= MaxLen}

\* for each string, the least number of edits that turns it into each other
EditTable ==
  [s \in StringsUpTo(MaxLen) |->
     [u \in StringsUpTo(MaxLen) |->
        CHOOSE k \in 0..MaxLen :
          /\ u \in WithinEdits(s, k)
          /\ k > 0 => u \notin WithinEdits(s, k - 1)]]

MinEdits(s1, s2) == EditTable[s1][s2]

\* s is one of the strings EditTable covers
IsBounded(s) == Len(s) <= MaxLen /\ Chars(s) \subseteq Alphabet

\* the measure stored under a key, as a function of the two strings
LexicalScore(key, s1, s2) ==
  CASE key = "Levenshtein" -> normalize_levenshtein(s1, s2)
    [] key = "Jaro" -> jaro(s1, s2)
    [] key = "Jaro-Winkler" -> jaro_winkler(s1, s2)
    [] key = "Ratcliff/Obershelp" -> ratio(s1, s2)
    [] key = "Jaccard" -> jaccard_normalized_similarity(s1, s2)
    [] key = "Sorensen-Dice" -> sorensen_normalized_similarity(s1, s2)

\* the band of a score by the lower-inclusive thresholds 0.8, 0.6, 0.4, 0.2
InBand(band, s) ==
  CASE band = "very similar" -> RGe(s, <<4, 5>>)
    [] band = "similar" -> RGe(s, <<3, 5>>) /\ RLt(s, <<4, 5>>)
    [] band = "moderately similar" -> RGe(s, <<2, 5>>) /\ RLt(s, <<3, 5>>)
    [] band = "somewhat different" -> RGe(s, <<1, 5>>) /\ RLt(s, <<2, 5>>)
    [] band = "very different" -> RLt(s, <<1, 5>>)

Bands ==
  {"very similar", "similar", "moderately similar", "somewhat different",
   "very different"}

\* the colour the legend gives each band
LegendColor(band) ==
  CASE band = "very similar" -> "#4CAF50"
    [] band = "similar" -> "#8BC34A"
    [] band = "moderately similar" -> "#FFEB3B"
    [] band = "somewhat different" -> "#FFC107"
    [] band = "very different" -> "#F44336"

\* a get_embedding call of this run has raised
ProviderFailed ==
  \/ (Len(requests) = 1 /\ embedding1 = <<>>)
  \/ (Len(requests) = 2 /\ embedding2 = <<>>)

CardMethods == {cards[i].method : i \in 1..Len(cards)}

ProgressSteps == <<0, 20, 40, 50, 60, 70, 80, 100>>

(***************************************************************************)
(* Properties.                                                             *)
(***************************************************************************)

\* C1: when a get_embedding call has raised in a comparison of two non-empty
\* strings, the finished run shows the six lexical entries and reports the
\* semantic entry as failed; the failure hides no lexical result.
C1_LexicalShownOnProviderFailure ==
  (pc = "done" /\ ProviderFailed) =>
    /\ \A i \in 1..Len(LexicalKeys) :
         /\ HasKey(similarities, LexicalKeys[i])
         /\ LexicalKeys[i] \in CardMethods
    /\ errors = 1

\* C2: every rendered card has the colour of exactly one band, the band its
\* score falls in by the lower-inclusive thresholds 0.8, 0.6, 0.4, 0.2 (scores
\* below 0 are very different, scores above 1 very similar), and 0.0, 0.1999,
\* 0.2, 0.3999, 0.4, 0.7999, 0.8, 1.0 are coloured as very different, very
\* different, somewhat different, somewhat different, moderately similar,
\* similar, very similar, very similar.
C2_BandsTotalAndDisjoint ==
  \A i \in 1..Len(cards) :
    LET s == cards[i].score
        c == cards[i].color
    IN  /\ Cardinality({b \in Bands : InBand(b, s)}) = 1
        /\ \A b \in Bands : InBand(b, s) <=> c = LegendColor(b)
        /\ s \in {Rat(0, 1), Rat(1999, 10000)} => c = LegendColor("very different")
        /\ s \in {Rat(2, 10), Rat(3999, 10000)} => c = LegendColor("somewhat different")
        /\ s = Rat(4, 10) => c = LegendColor("moderately similar")
        /\ s = Rat(7999, 10000) => c = LegendColor("similar")
        /\ s \in {Rat(8, 10), Rat(1, 1)} => c = LegendColor("very similar")
        /\ RLt(s, Zero) => c = LegendColor("very different")
        /\ RGt(s, One) => c = LegendColor("very similar")

\* the semantic card of a score of exactly 0.2, in amber
C2_Witness ==
  /\ Len(cards) = 7
  /\ cards[7].score = Rat(2, 10)
  /\ cards[7].color = "#FFC107"

\* C3: the stored Levenshtein score is 1 - d / max(len(s1), len(s2)), d the
\* least number of single-character insertions, deletions and substitutions
\* turning s1 into s2; it is 1 for two empty strings; it is 1 - 3/7 for
\* kitten and sitting.
C3_NormalizedLevenshtein ==
  HasKey(similarities, "Levenshtein") =>
    LET v == DictGet(similarities, "Levenshtein")
        max_len == Max2(Len(string1), Len(string2))
    IN  /\ (string1 = <<>> /\ string2 = <<>>) => v = One
        /\ (max_len > 0 /\ IsBounded(string1) /\ IsBounded(string2)) =>
             v = RSub(One, Rat(MinEdits(string1, string2), max_len))
        /\ (string1 = kitten /\ string2 = sitting) => v = RSub(One, Rat(3, 7))

C3_Witness ==
  /\ string1 = kitten
  /\ string2 = sitting
  /\ HasKey(similarities, "Levenshtein")
  /\ DictGet(similarities, "Levenshtein") = <<4, 7>>

\* C4: a string compared with itself scores exactly 1 under every one of
\* the six lexical measures.
C4_IdenticalStringsScoreOne ==
  string1 = string2 =>
    \A i \in 1..Len(similarities) : similarities[i][2] = One

C4_Witness ==
  /\ string1 = hello
  /\ string2 = hello
  /\ Keys(similarities) = LexicalKeys
  /\ \A i \in 1..6 : similarities[i][2] = One

\* C5 as stated: each of the six stored lexical scores of (s1, s2) equals the
\* score the same measure gives (s2, s1), Ratcliff/Obershelp included.
C5_AllSixSymmetric ==
  \A i \in 1..Len(similarities) :
    similarities[i][2] = LexicalScore(similarities[i][1], string2, string1)

\* C5 amended: the Levenshtein, Jaro, Jaro-Winkler, Jaccard and Sorensen-Dice
\* scores of (s1, s2) equal those of (s2, s1); the Ratcliff/Obershelp score
\* of SequenceMatcher(None, s1, s2).ratio() may depend on the order.
C5_FiveSymmetric ==
  \A i \in 1..Len(similarities) :
    similarities[i][1] # "Ratcliff/Obershelp" =>
      similarities[i][2] = LexicalScore(similarities[i][1], string2, string1)

\* all six scores stored for two different strings whose Ratcliff/Obershelp
\* score changes with the order
C5_Witness ==
  /\ Keys(similarities) = LexicalKeys
  /\ string1 # string2
  /\ ratio(string1, string2) # ratio(string2, string1)
  /\ similarities[1][2] = normalize_levenshtein(string2, string1)

\* C6: every lexical score stored in the mapping lies in [0, 1].
C6_LexicalScoresInUnitInterval ==
  \A i \in 1..Len(similarities) :
    similarities[i][1] # SemanticKey =>
      /\ RGe(similarities[i][2], Zero)
      /\ RLe(similarities[i][2], One)

\* six scores stored, one of them strictly between 0 and 1
C6_Witness ==
  /\ Keys(similarities) = LexicalKeys
  /\ \E i \in 1..6 : RGt(similarities[i][2], Zero) /\ RLt(similarities[i][2], One)
  /\ \E i \in 1..6 : similarities[i][2] = Zero

C8_SemanticAfterBothEmbeddings ==
  /\ IsPrefix(requests, <<string1, string2>>)
  /\ HasKey(similarities, SemanticKey) =>
       /\ requests = <<string1, string2>>
       /\ embedding1 \in Embeddings
       /\ embedding2 \in Embeddings
  /\ pc = "cosine" => requests = <<string1, string2>>
  /\ (pc = "except" \/ errors > 0) =>
       /\ ~HasKey(similarities, SemanticKey)
       /\ errors <= 1

\* a semantic score stored for two equal strings, after two requests
C8_Witness ==
  /\ string1 = string2
  /\ HasKey(similarities, SemanticKey)
  /\ requests = <<string1, string1>>

\* C9: with an empty input no lexical score is computed, no request is
\* issued, no entry and no card is created, and the finished run shows only
\* the prompt; with two non-empty inputs the six lexical scores are stored
\* before the first request is issued.
C9_GuardOnNonEmptyInputs ==
  /\ (string1 = <<>> \/ string2 = <<>>) =>
       /\ similarities = <<>>
       /\ requests = <<>>
       /\ cards = <<>>
       /\ placeholder = "absent"
       /\ errors = 0
       /\ ~explained
       /\ pc \in {"guard", "done"}
       /\ pc = "done" => info
  /\ (string1 # <<>> /\ string2 # <<>>) => ~info
  /\ (requests # <<>> \/ pc = "embed1") => IsPrefix(LexicalKeys, Keys(similarities))

\* a finished run with exactly one empty input
C9_Witness ==
  /\ pc = "done"
  /\ string1 # <<>>
  /\ string2 = <<>>
  /\ info

\* the state of a finished run in which a request or the cosine raised
FailedRun == pc = "done" /\ ~info /\ ~explained

\* C10: a finished run has rendered 0 or 7 cards; cards come only after both
\* embeddings, the stored semantic score, progress 100 and the cleared
\* placeholder; a run in which a request or the cosine raised shows exactly
\* one error, no card, and keeps the progress bar at 80, not cleared; the
\* progress value only moves up through 0, 20, 40, 50, 60, 70, 80, 100.
C10_RenderingAllOrNothing ==
  /\ [](/\ pc = "done" => Len(cards) \in {0, 7}
        /\ cards # <<>> =>
             /\ embedding1 \in Embeddings
             /\ embedding2 \in Embeddings
             /\ HasKey(similarities, SemanticKey)
             /\ progress = 100
             /\ placeholder = "cleared"
        /\ explained => (Len(cards) = 7 /\ errors = 0)
        /\ pc = "except" =>
             (errors = 0 /\ cards = <<>> /\ progress = 80 /\ placeholder = "progress")
        /\ FailedRun =>
             (errors = 1 /\ cards = <<>> /\ progress = 80 /\ placeholder = "progress")
        /\ \E k \in 1..Len(ProgressSteps) : progress = ProgressSteps[k])
  /\ [][pc # "done" =>
          \E k \in 1..Len(ProgressSteps) :
            /\ progress = ProgressSteps[k]
            /\ \/ progress' = progress
               \/ k < Len(ProgressSteps) /\ progress' = ProgressSteps[k + 1]]_vars

\* a finished run in which both requests succeeded and the cosine raised
C10_Witness ==
  /\ FailedRun
  /\ embedding1 \in Embeddings
  /\ embedding2 \in Embeddings
  /\ errors = 1
  /\ progress = 80

====
